---- MODULE Spec2Model ----
(***************************************************************************)
(* MongoProvider (pygeoapi/provider/mongo.py): translation of a feature    *)
(* query into a document-store filter and sort, count + paginated fetch,   *)
(* identifier normalisation, and the create/update/delete pass-throughs.   *)
(*                                                                         *)
(* The collection is a sequence of documents in insertion order.  A        *)
(* document is a function from top-level keys to values; "_id" holds the   *)
(* native identifier (an ObjectId, modelled by its numeric value).         *)
(* Strings that the code parses or formats (identifiers) are sequences of  *)
(* one-character strings.  An optional value is a sequence of length <= 1. *)
(* Times are integer microseconds.                                         *)
(***************************************************************************)
EXTENDS Integers, Sequences, FiniteSets, TLC

VARIABLES store,        \* the collection: documents in insertion order
          nextOid,      \* value of the next ObjectId the store generates
          deleted,      \* history: ObjectIds of the documents deleted so far
          created,      \* history: the last create, until the next write
          req,          \* the request being served: operation, inputs, outcome
          pc,           \* position of the in-flight query: "idle" or "fetch"
          matchcount,   \* the in-flight query's count_documents result
          interleaved,  \* history: a write took effect after that count
          exceeded      \* history: a query returned more features than it counted

vars == <<store, nextOid, deleted, created, req, pc, matchcount, interleaved,
          exceeded>>

None == <<>>
Some(x) == <<x>>

-----------------------------------------------------------------------------
(* Bounds *)

\* Documents created in one run.
MaxDocs == 2
\* Largest whole millisecond of the datetime bounds tried on the translator.
MaxMillis == 3

-----------------------------------------------------------------------------
(* ObjectId: 24 hexadecimal characters <-> the native identifier *)

OidHexLen == 24

HexDigits == <<"0", "1", "2", "3", "4", "5", "6", "7",
               "8", "9", "a", "b", "c", "d", "e", "f">>

IsHex(c) == \E i \in 1..16 : HexDigits[i] = c

HexVal(c) == (CHOOSE i \in 1..16 : HexDigits[i] = c) - 1

\* ObjectId(identifier) raises InvalidId unless this holds.
IsObjectId(s) == Len(s) = OidHexLen /\ \A i \in 1..Len(s) : IsHex(s[i])

RECURSIVE HexToInt(_)
HexToInt(s) ==
    IF s = <<>> THEN 0
    ELSE 16 * HexToInt(SubSeq(s, 1, Len(s) - 1)) + HexVal(s[Len(s)])

\* ObjectId(identifier), for an identifier that parses.
ObjectId(s) == HexToInt(s)

RECURSIVE IntToHex(_, _)
IntToHex(n, width) ==
    IF width = 0 THEN <<>>
    ELSE Append(IntToHex(n \div 16, width - 1), HexDigits[(n % 16) + 1])

\* str(oid)
str(oid) == IntToHex(oid, OidHexLen)

-----------------------------------------------------------------------------
(* Documents and the store's matching *)

\* The value at a dotted path of a document, if the document has one.
Lookup(doc, path) ==
    IF path[1] \notin DOMAIN doc THEN None
    ELSE IF Len(path) = 1 THEN Some(doc[path[1]])
    ELSE IF path[2] \in DOMAIN doc[path[1]] THEN Some(doc[path[1]][path[2]])
    ELSE None

\* The store compares dates at one-millisecond resolution.
BsonDate(t) == t - (t % 1000)

\* One clause of a filter object against one document.
MatchClause(doc, c) ==
    LET v == Lookup(doc, c.path) IN
    /\ v # None
    /\ "geoWithin" \in DOMAIN c =>
          /\ c.geoWithin[1][1] <= v[1][1] /\ v[1][1] <= c.geoWithin[2][1]
          /\ c.geoWithin[1][2] <= v[1][2] /\ v[1][2] <= c.geoWithin[2][2]
    /\ "eq" \in DOMAIN c => v[1] = c.eq
    /\ "gte" \in DOMAIN c => v[1] >= BsonDate(c.gte)
    /\ "lt" \in DOMAIN c => v[1] < BsonDate(c.lt)

\* {'$and': and_filter}, or {} when and_filter is empty.
Matches(doc, filterObj) ==
    \A i \in 1..Len(filterObj) : MatchClause(doc, filterObj[i])

\* collection.find(filterObj): the matching documents in natural order.
find(st, filterObj) == SelectSeq(st, LAMBDA d : Matches(d, filterObj))

\* collection.count_documents(filterObj)
count_documents(st, filterObj) ==
    Cardinality({i \in 1..Len(st) : Matches(st[i], filterObj)})

-----------------------------------------------------------------------------
(* Sorting: cursor.sort(sortList), a stable sort on (path, direction) pairs *)

datetime_field == "datetime"

ASCENDING == 1
DESCENDING == -1

\* Order of the string values the documents hold.
StringOrder == <<"a", "b">>

SortRank(path, v) ==
    IF path = <<"properties", "name">>
    THEN CHOOSE i \in 1..Len(StringOrder) : StringOrder[i] = v
    ELSE v

\* -1, 0 or 1; a document without the field sorts before every value.
CompareAt(a, b, path) ==
    LET x == Lookup(a, path)
        y == Lookup(b, path)
    IN  IF x = None /\ y = None THEN 0
        ELSE IF x = None THEN -1
        ELSE IF y = None THEN 1
        ELSE IF SortRank(path, x[1]) < SortRank(path, y[1]) THEN -1
        ELSE IF SortRank(path, x[1]) > SortRank(path, y[1]) THEN 1
        ELSE 0

RECURSIVE SortCompare(_, _, _)
SortCompare(a, b, sortList) ==
    IF sortList = <<>> THEN 0
    ELSE LET c == sortList[1][2] * CompareAt(a, b, sortList[1][1])
         IN  IF c # 0 THEN c ELSE SortCompare(a, b, Tail(sortList))

RECURSIVE InsertSorted(_, _, _)
InsertSorted(d, docs, sortList) ==
    IF docs = <<>> THEN <<d>>
    ELSE IF SortCompare(d, docs[Len(docs)], sortList) >= 0 THEN Append(docs, d)
    ELSE Append(InsertSorted(d, SubSeq(docs, 1, Len(docs) - 1), sortList),
                docs[Len(docs)])

RECURSIVE sort(_, _)
sort(docs, sortList) ==
    IF docs = <<>> THEN <<>>
    ELSE InsertSorted(docs[Len(docs)],
                      sort(SubSeq(docs, 1, Len(docs) - 1), sortList), sortList)

-----------------------------------------------------------------------------
(* _get_feature_list *)

Min(a, b) == IF a < b THEN a ELSE b

\* The native identifier is copied into id but not popped.
NormalizeKeepsNative(item) ==
    [k \in DOMAIN item \cup {"id"} |->
        IF k = "id" THEN str(item["_id"]) ELSE item[k]]

\* item['id'] = str(item.pop('_id'))
Normalize(item) ==
    [k \in (DOMAIN item \ {"_id"}) \cup {"id"} |->
        IF k = "id" THEN str(item["_id"]) ELSE item[k]]

\* The cursor ignores the filter it was built with.
FetchUnfiltered(st, filterObj, sortList, skip, maxitems) ==
    LET skipped == SubSeq(st, skip + 1, Len(st))
        capped  == IF maxitems > 0
                   THEN SubSeq(skipped, 1, Min(maxitems, Len(skipped)))
                   ELSE skipped
    IN  [i \in 1..Len(capped) |-> Normalize(capped[i])]

\* The fetch round trip: list(featurecursor) after find, sort, skip and limit,
\* then the identifier rewrite of every item.
Fetch(st, filterObj, sortList, skip, maxitems) ==
    LET found   == find(st, filterObj)
        ordered == IF sortList # <<>> THEN sort(found, sortList) ELSE found
        skipped == SubSeq(ordered, skip + 1, Len(ordered))
        capped  == IF maxitems > 0
                   THEN SubSeq(skipped, 1, Min(maxitems, Len(skipped)))
                   ELSE skipped
    IN  [i \in 1..Len(capped) |-> Normalize(capped[i])]

\* <<featurelist, matchCount>> when nothing is written between the count
\* and the fetch.
get_feature_list(st, filterObj, sortList, skip, maxitems) ==
    <<Fetch(st, filterObj, sortList, skip, maxitems),
      count_documents(st, filterObj)>>

-----------------------------------------------------------------------------
(* query: filter and sort translation *)

\* end.microsecond
microsecond(t) == t % 1000000

\* timedelta(milliseconds=1)
Millisecond == 1000

\* Adds the millisecond whether or not the end has a sub-millisecond part.
RoundedEndAlways(end) ==
    IF end # None THEN Some(end[1] + Millisecond) ELSE end

\* end = datetime.end; if end is not None and end.microsecond % 1000: end += 1 ms
RoundedEnd(end) ==
    IF end # None /\ microsecond(end[1]) % 1000 # 0
    THEN Some(end[1] + Millisecond)
    ELSE end

\* An empty range is let through as "no datetime constraint".
DatetimeFilterNoRaise(datetime) ==
    LET end  == RoundedEnd(datetime.end)
        path == <<"properties", datetime_field>>
    IN  IF datetime.start # None /\ datetime.end # None
        THEN [raised |-> FALSE,
              clauses |-> <<[path |-> path, gte |-> datetime.start[1],
                             lt |-> end[1]]>>]
        ELSE IF datetime.start # None
        THEN [raised |-> FALSE,
              clauses |-> <<[path |-> path, gte |-> datetime.start[1]]>>]
        ELSE IF datetime.end # None
        THEN [raised |-> FALSE,
              clauses |-> <<[path |-> path, lt |-> end[1]]>>]
        ELSE [raised |-> FALSE, clauses |-> <<>>]

\* The datetime branch of query, for a DatetimeRange [start, end].
DatetimeFilter(datetime) ==
    LET end  == RoundedEnd(datetime.end)
        path == <<"properties", datetime_field>>
    IN  IF datetime.start # None /\ datetime.end # None
        THEN [raised |-> FALSE,
              clauses |-> <<[path |-> path, gte |-> datetime.start[1],
                             lt |-> end[1]]>>]
        ELSE IF datetime.start # None
        THEN [raised |-> FALSE,
              clauses |-> <<[path |-> path, gte |-> datetime.start[1]]>>]
        ELSE IF datetime.end # None
        THEN [raised |-> FALSE,
              clauses |-> <<[path |-> path, lt |-> end[1]]>>]
        ELSE [raised |-> TRUE, clauses |-> <<>>]

BBoxFilter(bbox) ==
    IF Len(bbox) = 4
    THEN <<[path |-> <<"geometry">>,
            geoWithin |-> <<<<bbox[1], bbox[2]>>, <<bbox[3], bbox[4]>>>>]>>
    ELSE <<>>

PropertyFilter(properties) ==
    [i \in 1..Len(properties) |->
        [path |-> <<"properties", properties[i][1]>>, eq |-> properties[i][2]]]

\* and_filter, and whether building it raised ValueError.
BuildFilter(args) ==
    LET dt == IF args.datetime # None
              THEN DatetimeFilter(args.datetime[1])
              ELSE [raised |-> FALSE, clauses |-> <<>>]
    IN  [raised |-> dt.raised,
         filterobj |-> BBoxFilter(args.bbox) \o dt.clauses
                          \o PropertyFilter(args.properties)]

get_sort_property_name(sortspec) ==
    IF sortspec.property = "datetime"
    THEN <<"properties", datetime_field>>
    ELSE <<"properties", sortspec.property>>

SortList(sortby) ==
    [i \in 1..Len(sortby) |->
        <<get_sort_property_name(sortby[i]),
          IF sortby[i].order = "A" THEN ASCENDING ELSE DESCENDING>>]

\* The response query builds from a fetched list and a match count.
FeatureCollectionHitsFromList(resulttype, fetched, matchCount) ==
    LET featurelist == IF resulttype = "hits" THEN <<>> ELSE fetched
    IN  [type |-> "FeatureCollection",
         features |-> featurelist,
         numberMatched |-> IF resulttype = "hits"
                           THEN Len(featurelist) ELSE matchCount,
         numberReturned |-> Len(featurelist)]

FeatureCollection(resulttype, fetched, matchCount) ==
    LET featurelist == IF resulttype = "hits" THEN <<>> ELSE fetched
    IN  [type |-> "FeatureCollection",
         features |-> featurelist,
         numberMatched |-> matchCount,
         numberReturned |-> Len(featurelist)]

\* query as one call: outcome and number of store round trips.
query(args, st) ==
    LET f == BuildFilter(args) IN
    IF f.raised
    THEN [error |-> "ValueError", response |-> None, calls |-> 0]
    ELSE LET r == get_feature_list(st, f.filterobj, SortList(args.sortby),
                                   args.startindex, args.limit)
         IN  [error |-> "none",
              response |-> Some(FeatureCollection(args.resulttype, r[1], r[2])),
              calls |-> 2]

-----------------------------------------------------------------------------
(* get, create, update, delete *)

\* get: ObjectId(identifier) is evaluated before _get_feature_list is called.
get(identifier, st) ==
    IF ~IsObjectId(identifier)
    THEN [error |-> "InvalidId", result |-> None, calls |-> 0]
    ELSE LET r == get_feature_list(
                      st, <<[path |-> <<"_id">>, eq |-> ObjectId(identifier)]>>,
                      <<>>, 0, 1)
         IN  [error |-> "none",
              result |-> IF r[1] # <<>> THEN Some(r[1][1]) ELSE None,
              calls |-> 2]

\* collection.insert_one(new_feature): the store adds the generated _id.
insert_one(st, new_feature, oid) == Append(st, new_feature @@ ("_id" :> oid))

\* create
create(new_feature, st, oid) == insert_one(st, new_feature, oid)

\* Index of the first document with this _id, or 0.
FirstWithId(st, oid) ==
    IF \E i \in 1..Len(st) : st[i]["_id"] = oid
    THEN CHOOSE i \in 1..Len(st) :
            /\ st[i]["_id"] = oid
            /\ \A j \in 1..(i - 1) : st[j]["_id"] # oid
    ELSE 0

\* The updated feature is written with its id key.
UpdateDataWithId(updated_feature) == updated_feature

\* data = {k: v for k, v in updated_feature.items() if k != 'id'}
UpdateData(updated_feature) ==
    [k \in DOMAIN updated_feature \ {"id"} |-> updated_feature[k]]

\* collection.update_one({'_id': oid}, {"$set": data}): every top-level key of
\* data replaces that field of the first matching document.
update_one(st, oid, data) ==
    LET i == FirstWithId(st, oid) IN
    IF i = 0 THEN st
    ELSE [st EXCEPT ![i] =
             [k \in DOMAIN st[i] \cup DOMAIN data |->
                 IF k \in DOMAIN data THEN data[k] ELSE st[i][k]]]

\* update: outcome, the fields written, and the store afterwards.
update(identifier, updated_feature, st) ==
    IF ~IsObjectId(identifier)
    THEN [error |-> "InvalidId", written |-> {}, calls |-> 0, store |-> st]
    ELSE LET data == UpdateData(updated_feature)
         IN  [error |-> "none", written |-> DOMAIN data, calls |-> 1,
              store |-> update_one(st, ObjectId(identifier), data)]

\* The filter names the generic id key, which holds no ObjectId: no match.
delete_one_by_generic_id(st, oid) == st

\* collection.delete_one({'_id': oid}): the first matching document goes.
delete_one(st, oid) ==
    LET i == FirstWithId(st, oid) IN
    IF i = 0 THEN st
    ELSE SubSeq(st, 1, i - 1) \o SubSeq(st, i + 1, Len(st))

\* An identifier that does not parse deletes nothing and reports success.
deleteSwallowsInvalidId(identifier, st) ==
    IF ~IsObjectId(identifier)
    THEN [error |-> "none", calls |-> 0, store |-> st]
    ELSE [error |-> "none", calls |-> 1,
          store |-> delete_one(st, ObjectId(identifier))]

\* delete
delete(identifier, st) ==
    IF ~IsObjectId(identifier)
    THEN [error |-> "InvalidId", calls |-> 0, store |-> st]
    ELSE [error |-> "none", calls |-> 1,
          store |-> delete_one(st, ObjectId(identifier))]

\* The _id values of the stored documents.
Oids(st) == {st[i]["_id"] : i \in 1..Len(st)}

-----------------------------------------------------------------------------
(* Inputs *)

\* Features handed to create: GeoJSON features, the second one carrying a
\* generic id key.  Datetimes are whole milliseconds, as the store keeps them.
Features ==
    { [geometry |-> <<0, 0>>, properties |-> [datetime |-> 0, name |-> "a"]],
      [id |-> <<"x">>, geometry |-> <<5, 5>>,
       properties |-> [datetime |-> 1000, name |-> "b"]] }

\* Features handed to update: a partial properties object, and a document
\* that carries an id key and no properties.
Updates ==
    { [properties |-> [name |-> "b"]],
      [id |-> <<"y">>, geometry |-> <<0, 0>>] }

\* Identifier strings: those of the ObjectIds 0..MaxDocs (0 is never
\* generated), the empty string, and 24 characters that are not all hex.
Identifiers ==
    {str(i) : i \in 0..MaxDocs}
        \cup {<<>>, [i \in 1..OidHexLen |-> IF i = OidHexLen THEN "g" ELSE "0"]}

DatetimeRange(start, end) == [start |-> start, end |-> end]

\* Offsets and limits; a limit of -1 is what get_fields passes for "all".
StartIndexes == {0, 1}
Limits == {-1, 0, 1, 2}

QueryArgs ==
    [startindex : StartIndexes,
     limit      : Limits,
     resulttype : {"results", "hits"},
     bbox       : {<<>>, <<0, 0, 1>>, <<0, 0, 1, 1>>},
     datetime   : {None, Some(DatetimeRange(None, None)),
                   Some(DatetimeRange(Some(0), Some(1))),
                   Some(DatetimeRange(Some(1000), None)),
                   Some(DatetimeRange(None, Some(1000)))},
     properties : {<<>>, <<<<"name", "a">>>>},
     sortby     : {<<>>, <<[property |-> "name", order |-> "A"],
                           [property |-> "datetime", order |-> "D"]>>}]

\* The queries run concurrently with other requests' writes.
ConcurrentQueryArgs ==
    {a \in QueryArgs : a.bbox = <<>> /\ a.datetime = None /\ a.sortby = <<>>}

\* Datetime bounds tried on the translator: around every whole millisecond.
Times == {ms * Millisecond + sub : ms \in 0..MaxMillis, sub \in {0, 1, 500, 999}}

OptionalTimes == {None} \cup {Some(t) : t \in Times}

-----------------------------------------------------------------------------
(* The provider serving one request at a time *)

Idle == [op |-> "idle"]

Init ==
    /\ store = <<>>
    /\ nextOid = 1
    /\ deleted = {}
    /\ created = None
    /\ req = Idle
    /\ pc = "idle"
    /\ matchcount = 0
    /\ interleaved = FALSE
    /\ exceeded = FALSE

Get(identifier) ==
    LET r == get(identifier, store) IN
    /\ req = Idle
    /\ req' = [op |-> "get", identifier |-> identifier, error |-> r.error,
               result |-> r.result, calls |-> r.calls, before |-> store]
    /\ UNCHANGED <<store, nextOid, deleted, created, pc, matchcount,
                   interleaved, exceeded>>

Create(new_feature) ==
    /\ req = Idle
    /\ nextOid <= MaxDocs
    /\ store' = create(new_feature, store, nextOid)
    /\ nextOid' = nextOid + 1
    /\ created' = Some([feature |-> new_feature, assigned |-> nextOid])
    /\ req' = [op |-> "create", feature |-> new_feature, error |-> "none",
               calls |-> 1]
    /\ UNCHANGED <<deleted, pc, matchcount, interleaved, exceeded>>

Update(identifier, updated_feature) ==
    LET r == update(identifier, updated_feature, store) IN
    /\ req = Idle
    /\ store' = r.store
    /\ created' = None
    /\ req' = [op |-> "update", identifier |-> identifier,
               feature |-> updated_feature, error |-> r.error,
               written |-> r.written, calls |-> r.calls, before |-> store]
    /\ UNCHANGED <<nextOid, deleted, pc, matchcount, interleaved, exceeded>>

Delete(identifier) ==
    LET r == delete(identifier, store) IN
    /\ req = Idle
    /\ store' = r.store
    /\ deleted' = deleted \cup (Oids(store) \ Oids(r.store))
    /\ created' = None
    /\ req' = [op |-> "delete", identifier |-> identifier, error |-> r.error,
               calls |-> r.calls, before |-> store]
    /\ UNCHANGED <<nextOid, pc, matchcount, interleaved, exceeded>>

Query(args) ==
    LET r == query(args, store) IN
    /\ req = Idle
    /\ req' = [op |-> "query", args |-> args, error |-> r.error,
               response |-> r.response, calls |-> r.calls]
    /\ UNCHANGED <<store, nextOid, deleted, created, pc, matchcount,
                   interleaved, exceeded>>

\* The call returns (or raises) to its caller; the provider keeps nothing.
Return ==
    /\ req # Idle
    /\ pc = "idle"
    /\ req' = Idle
    /\ UNCHANGED <<store, nextOid, deleted, created, pc, matchcount,
                   interleaved, exceeded>>

Next ==
    \/ \E identifier \in Identifiers : Get(identifier)
    \/ \E new_feature \in Features : Create(new_feature)
    \/ \E identifier \in Identifiers, updated_feature \in Updates :
          Update(identifier, updated_feature)
    \/ \E identifier \in Identifiers : Delete(identifier)
    \/ \E args \in QueryArgs : Query(args)
    \/ Return

Spec == Init /\ [][Next]_vars

-----------------------------------------------------------------------------
(* A query whose two round trips interleave with other requests' writes *)

\* query up to and including the count round trip.
QueryCount(args) ==
    LET f == BuildFilter(args) IN
    /\ req = Idle
    /\ IF f.raised
       THEN /\ req' = [op |-> "query", args |-> args, error |-> "ValueError",
                       response |-> None, calls |-> 0]
            /\ UNCHANGED <<pc, matchcount>>
       ELSE /\ req' = [op |-> "query", args |-> args, error |-> "none",
                       response |-> None, calls |-> 1]
            /\ matchcount' = count_documents(store, f.filterobj)
            /\ pc' = "fetch"
    /\ interleaved' = FALSE
    /\ UNCHANGED <<store, nextOid, deleted, created, exceeded>>

\* The fetch round trip and the response.
QueryFetch ==
    LET f == BuildFilter(req.args)
        fetched == Fetch(store, f.filterobj, SortList(req.args.sortby),
                         req.args.startindex, req.args.limit)
    IN
    /\ pc = "fetch"
    /\ req' = [req EXCEPT
                 !.response = Some(FeatureCollection(req.args.resulttype,
                                                     fetched, matchcount)),
                 !.calls = 2]
    /\ pc' = "idle"
    /\ exceeded' = (exceeded \/ Len(fetched) > matchcount)
    /\ UNCHANGED <<store, nextOid, deleted, created, matchcount, interleaved>>

\* Another request's create takes effect.
OtherCreate(new_feature) ==
    /\ nextOid <= MaxDocs
    /\ store' = create(new_feature, store, nextOid)
    /\ nextOid' = nextOid + 1
    /\ interleaved' = (interleaved \/ pc = "fetch")
    /\ UNCHANGED <<deleted, created, req, pc, matchcount, exceeded>>

\* Another request's delete takes effect.
OtherDelete(identifier) ==
    LET r == delete(identifier, store) IN
    /\ r.store # store
    /\ store' = r.store
    /\ deleted' = deleted \cup (Oids(store) \ Oids(r.store))
    /\ interleaved' = (interleaved \/ pc = "fetch")
    /\ UNCHANGED <<nextOid, created, req, pc, matchcount, exceeded>>

ConcurrentNext ==
    \/ \E args \in ConcurrentQueryArgs : QueryCount(args)
    \/ QueryFetch
    \/ \E new_feature \in Features : OtherCreate(new_feature)
    \/ \E identifier \in Identifiers : OtherDelete(identifier)
    \/ Return

ConcurrentSpec == Init /\ [][ConcurrentNext]_vars

-----------------------------------------------------------------------------
(* The datetime translation applied to every range of bounds *)

TranslateDatetime(start, end) ==
    /\ req = Idle
    /\ req' = [op |-> "datetime", datetime |-> DatetimeRange(start, end),
               out |-> DatetimeFilter(DatetimeRange(start, end))]
    /\ UNCHANGED <<store, nextOid, deleted, created, pc, matchcount,
                   interleaved, exceeded>>

TranslateNext ==
    \/ \E start \in OptionalTimes, end \in OptionalTimes :
          TranslateDatetime(start, end)
    \/ Return

TranslateSpec == Init /\ [][TranslateNext]_vars

-----------------------------------------------------------------------------
(* Properties *)

\* A query that returned a feature collection.
QueryDone == req.op = "query" /\ req.error = "none" /\ req.response # None

\* The documents of st whose _id is oid.
WithId(st, oid) == {i \in 1..Len(st) : st[i]["_id"] = oid}

\* C1: every query's numberReturned equals the length of features and, for
\* every limit >= 0 (limit = 0 included), is at most limit; numberMatched is
\* the same for every choice of limit and startindex on the same filter and
\* store contents.
C1_ReturnedWithinLimit ==
    QueryDone =>
        LET fc == req.response[1] IN
        /\ fc.numberReturned = Len(fc.features)
        /\ req.args.limit >= 0 => fc.numberReturned <= req.args.limit
        /\ \A s \in StartIndexes, l \in Limits :
              query([req.args EXCEPT !.startindex = s, !.limit = l],
                    store).response[1].numberMatched = fc.numberMatched

\* C2: after update with a properties object, every property the matching
\* document had before and the update's properties object does not mention
\* still has its old value, and every other document is unchanged.
C2_UnmentionedPropertiesKept ==
    (/\ req.op = "update" /\ req.error = "none"
     /\ "properties" \in DOMAIN req.feature) =>
        /\ Len(store) = Len(req.before)
        /\ \A i \in 1..Len(req.before) :
              IF i \in WithId(req.before, ObjectId(req.identifier))
              THEN "properties" \in DOMAIN req.before[i] =>
                      \A k \in DOMAIN req.before[i].properties
                                  \ DOMAIN req.feature.properties :
                          /\ k \in DOMAIN store[i].properties
                          /\ store[i].properties[k] = req.before[i].properties[k]
              ELSE store[i] = req.before[i]

\* C3: delete of an identifier that matches no document succeeds and leaves
\* the store unchanged; delete of an existing document removes exactly that
\* document; every later get of a deleted identifier returns None.
C3_DeleteThenNotFound ==
    /\ (req.op = "delete" /\ IsObjectId(req.identifier)) =>
          LET oid == ObjectId(req.identifier) IN
          /\ req.error = "none"
          /\ WithId(req.before, oid) = {} => store = req.before
          /\ WithId(req.before, oid) # {} =>
                /\ Len(store) = Len(req.before) - 1
                /\ store = SelectSeq(req.before, LAMBDA d : d["_id"] # oid)
    /\ (req.op = "get" /\ IsObjectId(req.identifier)
            /\ ObjectId(req.identifier) \in deleted) =>
          req.error = "none" /\ req.result = None

C3_Witness ==
    /\ req.op = "get" /\ IsObjectId(req.identifier)
    /\ ObjectId(req.identifier) \in deleted
    /\ req.result = None
    /\ store # <<>>

\* C4: a get that follows a create, with the identifier the store assigned,
\* returns a feature with the input's properties, whose id is the non-empty
\* string form of the native identifier, and with no _id field.
C4_CreateGetRoundTrip ==
    (/\ req.op = "get" /\ created # None
     /\ req.identifier = str(created[1].assigned)) =>
        /\ req.error = "none"
        /\ req.result # None
        /\ req.result[1].properties = created[1].feature.properties
        /\ req.result[1].id = str(created[1].assigned)
        /\ Len(req.result[1].id) > 0
        /\ "_id" \notin DOMAIN req.result[1]

C4_Witness ==
    /\ req.op = "get" /\ created # None
    /\ req.identifier = str(created[1].assigned)
    /\ "id" \in DOMAIN created[1].feature
    /\ req.result # None
    /\ Len(store) > 1

\* C5: a query with resulttype "hits" returns no features and numberReturned
\* 0, and its numberMatched is the number of stored documents that match the
\* filter, whatever bbox, datetime, properties, sortby, startindex and limit.
C5_HitsCountsMatches ==
    (QueryDone /\ req.args.resulttype = "hits") =>
        LET fc == req.response[1] IN
        /\ fc.features = <<>>
        /\ fc.numberReturned = 0
        /\ fc.numberMatched =
              Len(SelectSeq(store,
                    LAMBDA d : Matches(d, BuildFilter(req.args).filterobj)))

C5_Witness ==
    /\ QueryDone /\ req.args.resulttype = "hits"
    /\ req.args.datetime # None /\ req.args.sortby # <<>>
    /\ req.args.startindex = 1
    /\ req.response[1].numberMatched > 0
    /\ req.response[1].numberMatched < Len(store)

\* The smallest whole millisecond >= t.
CeilMillisecond(t) ==
    CHOOSE m \in {k * 1000 : k \in 0..(MaxMillis + 2)} :
        /\ m >= t
        /\ \A n \in {k * 1000 : k \in 0..(MaxMillis + 2)} : n >= t => m <= n

\* The datetime clause of a translated range with an end bound.
TranslatedWithEnd ==
    req.op = "datetime" /\ req.datetime.end # None /\ ~req.out.raised

\* C6 as stated: the upper bound put in the filter is the smallest whole
\* millisecond >= the end bound when the end has a sub-millisecond part, the
\* end bound itself otherwise; the lower bound is never changed.
C6_UpperBoundIsWholeMillisecond ==
    TranslatedWithEnd =>
        LET end == req.datetime.end[1]
            c   == req.out.clauses[1]
        IN  /\ c.lt = IF end % 1000 # 0 THEN CeilMillisecond(end) ELSE end
            /\ req.datetime.start # None => c.gte = req.datetime.start[1]

\* C6 amended: when the end has a sub-millisecond part the upper bound put in
\* the filter is the end bound plus one millisecond, which the store, reading
\* dates at millisecond resolution, takes as the smallest whole millisecond
\* >= the end bound; otherwise it is the end bound itself; the lower bound is
\* never changed.
C6_UpperBoundPlusMillisecond ==
    TranslatedWithEnd =>
        LET end == req.datetime.end[1]
            c   == req.out.clauses[1]
        IN  /\ c.lt = IF end % 1000 # 0 THEN end + 1000 ELSE end
            /\ BsonDate(c.lt) = CeilMillisecond(end)
            /\ req.datetime.start # None => c.gte = req.datetime.start[1]
            /\ req.datetime.start = None => "gte" \notin DOMAIN c

C6_Witness ==
    /\ TranslatedWithEnd
    /\ req.datetime.start # None
    /\ req.datetime.end[1] % 1000 = 999
    /\ req.out.clauses[1].lt = req.datetime.end[1] + 1000

\* C7: a query whose datetime range has neither start nor end fails with
\* ValueError whatever the other parameters; no store round trip is made and
\* no feature collection is returned.
C7_EmptyRangeRaises ==
    (/\ req.op = "query" /\ req.args.datetime # None
     /\ req.args.datetime[1].start = None
     /\ req.args.datetime[1].end = None) =>
        /\ req.error = "ValueError"
        /\ req.calls = 0
        /\ req.response = None

C7_Witness ==
    /\ req.op = "query" /\ req.args.datetime = Some(DatetimeRange(None, None))
    /\ req.error = "ValueError"
    /\ req.args.bbox # <<>> /\ req.args.properties # <<>>
    /\ req.args.resulttype = "hits"
    /\ store # <<>>

\* C8: get, update and delete with an identifier that does not parse fail
\* with InvalidId before any store call, and the store is as it was.
C8_InvalidIdentifierRaises ==
    (/\ req.op \in {"get", "update", "delete"}
     /\ ~(/\ Len(req.identifier) = OidHexLen
          /\ \A i \in 1..Len(req.identifier) :
                \E j \in 1..16 : HexDigits[j] = req.identifier[i])) =>
        /\ req.error = "InvalidId"
        /\ req.calls = 0
        /\ store = req.before

C8_Witness ==
    /\ req.op = "delete" /\ req.error = "InvalidId"
    /\ Len(req.identifier) = OidHexLen
    /\ store # <<>>

\* C9: update never writes the generic id key: the fields it writes hold no
\* key named id, also when the updated feature carries one, and no document's
\* native identifier (nor a stored id field) differs after the update.
C9_UpdateNeverWritesId ==
    (req.op = "update" /\ req.error = "none") =>
        /\ "id" \notin req.written
        /\ Len(store) = Len(req.before)
        /\ \A i \in 1..Len(req.before) :
              /\ store[i]["_id"] = req.before[i]["_id"]
              /\ Lookup(store[i], <<"id">>) = Lookup(req.before[i], <<"id">>)

C9_Witness ==
    /\ req.op = "update" /\ req.error = "none"
    /\ "id" \in DOMAIN req.feature
    /\ WithId(req.before, ObjectId(req.identifier)) # {}
    /\ store # req.before

\* C10: count and fetch are two round trips; numberReturned <= numberMatched
\* holds for every query with no write between them, and not for every query
\* that a concurrent create or delete separates.
C10_ReturnedWithinMatched ==
    (QueryDone /\ ~interleaved) =>
        req.response[1].numberReturned <= req.response[1].numberMatched

\* A query with no write between its round trips returns a feature, in a run
\* where an earlier query returned more features than it had counted.
C10_Witness ==
    /\ QueryDone /\ ~interleaved
    /\ req.response[1].numberReturned > 0
    /\ exceeded

====
